---- MODULE Spec2Model ----
(***************************************************************************)
(* Model of flask_solrquery.py: the SearchRequest parameter builder, the   *)
(* FlaskSolrQuery defaults merge, and the SearchResponseMixin accessors.   *)
(*                                                                         *)
(* Python strings are sequences of one-character strings.  Python values   *)
(* of different types live in one dict, so every value is a tagged record: *)
(* None, I(n) an int, S(s) a str, L(l) a list.                             *)
(***************************************************************************)
EXTENDS Integers, Sequences, FiniteSets, TLC

VARIABLES
    params, method, data, url, prepared,  \* the SearchRequest
    extra_params, request_http_method,    \* the FlaskSolrQuery configuration
    raw, pagination,                      \* the SearchResponseMixin
    op, ret,                              \* the last call and what it returned
    added,          \* history: the arguments of the add_facet calls, in order
    given,          \* history: the keyword arguments set_params was called with
    nprepared,      \* history: the number of prepare calls
    pag_args,       \* history: the arguments of the first get_pagination call,
                    \* and whether a later call gave other arguments
    first_docset    \* history: what the first get_docset call that merged the
                    \* highlighting returned, and whether it was called again

vars == <<params, method, data, url, prepared, extra_params,
          request_http_method, raw, pagination, op, ret, added, given,
          nprepared, pag_args, first_docset>>

request_vars == <<params, method, data, url, prepared>>
client_vars == <<extra_params, request_http_method>>
response_vars == <<raw, pagination, pag_args, first_docset>>

----------------------------------------------------------------------------
(* Bounds of the model.                                                    *)

MaxFacets == 2
MaxCount == 1
MaxHits == 6
MaxStart == 7
MaxRows == 2
MaxLen == 4
MaxDocs == 2
MaxPrepare == 1

----------------------------------------------------------------------------
(* Python values.                                                          *)

None == [t |-> "none"]
I(n) == [t |-> "int", v |-> n]
S(s) == [t |-> "str", v |-> s]
L(l) == [t |-> "list", v |-> l]

\* Python truth value: None, 0, '' and [] are false.
Truthy(x) ==
    CASE x.t = "none" -> FALSE
      [] x.t = "int" -> x.v # 0
      [] x.t = "str" -> x.v # <<>>
      [] x.t = "list" -> x.v # <<>>

\* `a or b`
Or(a, b) == IF Truthy(a) THEN a ELSE b

\* The characters matched by \w in the strings of the model.
WordChars == {"a", "b", "d", "e", "k", "t", "x", "y", "1", "_"}

str_true == <<"t", "r", "u", "e">>
str_json == <<"j", "s", "o", "n">>
str_GET == <<"G", "E", "T">>
str_POST == <<"P", "O", "S", "T">>

----------------------------------------------------------------------------
(* SearchParams: a dict from key to value.  A plain key 'name' is <<name>>;*)
(* a field-scoped key 'f.%s.<suffix>' % field is <<"f", field, suffix>>    *)
(* (the format is injective in field and suffix, and never yields a plain  *)
(* key of the model).                                                      *)

K(name) == <<name>>
FKey(field, suffix) == <<"f", field, suffix>>

has_key(p, k) == k \in DOMAIN p

\* dict.__setitem__
setitem(p, k, v) == [x \in DOMAIN p \cup {k} |-> IF x = k THEN v ELSE p[x]]

\* dict.get(k, default)
get(p, k, default) == IF has_key(p, k) THEN p[k] ELSE default

\* SearchParams.__getattr__: None for a missing key
getattr(p, k) == IF ~has_key(p, k) THEN None ELSE p[k]

\* dict.setdefault(k, default)
setdefault(p, k, default) == IF has_key(p, k) THEN p ELSE setitem(p, k, default)

InList(v, l) == \E i \in 1..Len(l) : l[i] = v

append(p, key, val) ==
    LET p1 == setdefault(p, key, L(<<>>))
    IN IF ~InList(val, p1[key].v)
       THEN setitem(p1, key, L(Append(p1[key].v, val)))
       ELSE p1

\* SearchParams.update: every given key is assigned, present or not
update(p, kwargs) ==
    [x \in DOMAIN p \cup DOMAIN kwargs |-> IF x \in DOMAIN kwargs THEN kwargs[x] ELSE p[x]]

EmptyDict == [x \in {} |-> None]

\* SearchParams(q=q): update(wt='json', q=q)
NewParams(q) == update(EmptyDict, [x \in {K("wt"), K("q")} |->
                                     IF x = K("wt") THEN S(str_json) ELSE q])

----------------------------------------------------------------------------
(* SearchRequest: facets.                                                  *)

\* "{!ex=dt key=%s}%s" % (output_key, field)
ex_prefix == <<"{", "!", "e", "x", "=", "d", "t">>
ex_format(output_key, field) ==
    ex_prefix \o <<" ", "k", "e", "y", "=">> \o output_key \o <<"}">> \o field

\* str.startswith
startswith(s, pre) == Len(s) >= Len(pre) /\ SubSeq(s, 1, Len(pre)) = pre

\* The index after the longest run of \w characters of s that starts at i.
RECURSIVE WordRunEnd(_, _)
WordRunEnd(s, i) ==
    IF i <= Len(s) /\ s[i] \in WordChars THEN WordRunEnd(s, i + 1) ELSE i

\* Whether "key=(\w+)}(\w+)" matches s at index i.  Both groups are greedy;
\* the first must be followed by "}", which is no \w character, so only the
\* longest run can match.
MatchAt(s, i) ==
    /\ i + 3 <= Len(s)
    /\ SubSeq(s, i, i + 3) = <<"k", "e", "y", "=">>
    /\ LET j == WordRunEnd(s, i + 4)
       IN /\ j > i + 4
          /\ j <= Len(s)
          /\ s[j] = "}"
          /\ WordRunEnd(s, j + 1) > j + 1

\* re.search("key=(\w+)}(\w+)", s): the leftmost match, or no match.
re_search(s) ==
    LET hits == {i \in 1..Len(s) : MatchAt(s, i)}
    IN IF hits = {} THEN [matched |-> FALSE]
       ELSE LET i == CHOOSE x \in hits : \A y \in hits : x <= y
                j == WordRunEnd(s, i + 4)
            IN [matched |-> TRUE,
                groups |-> <<SubSeq(s, i + 4, j - 1),
                             SubSeq(s, j + 1, WordRunEnd(s, j + 1) - 1)>>]

add_facet(p, field, limit, mincount, output_key, prefix) ==
    LET p1 == setitem(p, K("facet"), S(str_true))
        p2 == setdefault(p1, K("facet.field"), L(<<>>))
        p3 == IF Truthy(output_key)
              THEN append(p2, K("facet.field"), ex_format(output_key.v, field))
              ELSE append(p2, K("facet.field"), field)
        p4 == IF Truthy(limit) THEN setitem(p3, FKey(field, "facet.limit"), limit) ELSE p3
        p5 == IF Truthy(mincount) THEN setitem(p4, FKey(field, "facet.mincount"), mincount) ELSE p4
    IN IF Truthy(prefix) THEN setitem(p5, FKey(field, "facet.prefix"), prefix) ELSE p5

\* self.params.facet and True or False
facets_on(p) == Truthy(getattr(p, K("facet")))

\* One pass of the loop body of get_facets over the token fl.
facet_of(p, fl) ==
    LET m == re_search(fl)
        tagged == startswith(fl, ex_prefix)
        name == IF tagged THEN m.groups[2] ELSE fl
    IN [field |-> name,
        limit |-> get(p, FKey(name, "facet.limit"), None),
        mincount |-> get(p, FKey(name, "facet.mincount"), None),
        output_key |-> IF tagged THEN S(m.groups[1]) ELSE None,
        prefix |-> get(p, FKey(name, "facet.prefix"), None)]

\* m.groups() on m = None raises AttributeError
facet_raises(fl) == startswith(fl, ex_prefix) /\ ~re_search(fl).matched

get_facets(p) ==
    IF ~facets_on(p) THEN [ok |-> TRUE, val |-> <<>>]
    ELSE LET fls == get(p, K("facet.field"), L(<<>>)).v
         IN IF \E i \in 1..Len(fls) : facet_raises(fls[i])
            THEN [ok |-> FALSE, exc |-> "AttributeError"]
            ELSE [ok |-> TRUE, val |-> [i \in 1..Len(fls) |-> facet_of(p, fls[i])]]

\* get_all_facets without its facets_on guard
get_all_facets_unguarded(p, r) == get(r, "facet_counts", EmptyDict)

\* SearchResponseMixin.get_all_facets on the response bound to the request
get_all_facets(p, r) ==
    IF ~facets_on(p) THEN EmptyDict ELSE get(r, "facet_counts", EmptyDict)

----------------------------------------------------------------------------
(* SearchRequest.prepare and FlaskSolrQuery.set_defaults.                  *)

\* config['SOLRQUERY_URL']
query_url == S(<<"u">>)

\* The url requests prepares: the parameters are appended as a query string
\* (its content is left out of the model).
encoded_url(u) == S(u.v \o <<"?">>)

\* prepare(url, method, data): the request prepared, or the exception raised.
\* requests refuses a request without url (MissingSchema).
prepare(p, self_method, self_data, self_url, url_arg, method_arg, data_arg) ==
    IF Or(method_arg, self_method) = S(str_GET) /\ Truthy(Or(data_arg, self_data))
    THEN [ok |-> FALSE, exc |-> "Exception"]
    ELSE IF ~Truthy(Or(url_arg, self_url))
    THEN [ok |-> FALSE, exc |-> "MissingSchema"]
    ELSE [ok |-> TRUE,
          method |-> Or(Or(method_arg, self_method), S(str_GET)),
          url |-> encoded_url(Or(url_arg, self_url)),
          params |-> p,
          data |-> Or(data_arg, self_data)]

\* set_defaults: the new (url, params, method) of the request
set_defaults(p, self_method, extra, client_method, url_arg) ==
    [url |-> IF url_arg = None THEN query_url ELSE url_arg,
     params |-> IF extra # None THEN update(p, extra.v) ELSE p,
     method |-> client_method]

----------------------------------------------------------------------------
(* SearchRequest: highlights.                                              *)

\* str.split(','), the pieces left to right
RECURSIVE split(_)
split(s) ==
    LET commas == {i \in 1..Len(s) : s[i] = ","}
    IN IF commas = {} THEN <<s>>
       ELSE LET i == CHOOSE x \in commas : \A y \in commas : x <= y
            IN <<SubSeq(s, 1, i - 1)>> \o split(SubSeq(s, i + 1, Len(s)))

add_highlight(p, field, count, fragsize) ==
    LET p1 == setitem(p, K("hl"), S(str_true))
        p2 == IF ~has_key(p1, K("hl.fl"))
              THEN setitem(p1, K("hl.fl"), S(field))
              ELSE IF ~InList(field, split(p1[K("hl.fl")].v))
              THEN setitem(p1, K("hl.fl"), S(p1[K("hl.fl")].v \o <<",">> \o field))
              ELSE p1
        p3 == IF Truthy(count) THEN setitem(p2, FKey(field, "hl.snippets"), count) ELSE p2
    IN IF Truthy(fragsize) THEN setitem(p3, FKey(field, "hl.fragsize"), fragsize) ELSE p3

\* self.params.hl and True or False
highlights_on(p) == Truthy(getattr(p, K("hl")))

----------------------------------------------------------------------------
(* SearchResponseMixin.  raw is the decoded JSON: a dict with string keys. *)

get_hits(r) == get(get(r, "response", EmptyDict), "numFound", 0)

get_start_count(r) == get(get(r, "response", EmptyDict), "start", 0)

\* The merge extending the fragments a doc already has
merge_doc_extend(doc, hl) ==
    IF has_key(doc, "highlights")
    THEN setitem(doc, "highlights", doc["highlights"] \o hl[doc["id"]])
    ELSE setitem(doc, "highlights", hl[doc["id"]])

\* doc['highlights'] = self.raw['highlighting'][doc['id']]
merge_doc(doc, hl) == setitem(doc, "highlights", hl[doc["id"]])

\* The statement above raises KeyError for a doc without id, or whose id has
\* no entry in the highlighting.
merge_raises(doc, hl) == ~has_key(doc, "id") \/ ~has_key(hl, doc["id"])

\* get_docset: what is returned (or raised), and raw after the call.  The
\* loop merges the docs in order and stops at the first that raises.
get_docset(r, p) ==
    IF ~has_key(r, "response") THEN [ok |-> TRUE, val |-> <<>>, raw |-> r]
    ELSE LET docset == get(r["response"], "docs", <<>>)
         IN IF highlights_on(p) /\ has_key(r, "highlighting")
            THEN LET hl == r["highlighting"]
                     bad == {i \in 1..Len(docset) : merge_raises(docset[i], hl)}
                     stop == IF bad = {} THEN Len(docset) + 1
                             ELSE CHOOSE x \in bad : \A y \in bad : x <= y
                     merged == [i \in 1..Len(docset) |->
                                  IF i < stop THEN merge_doc(docset[i], hl)
                                  ELSE docset[i]]
                     r2 == IF has_key(r["response"], "docs")
                           THEN setitem(r, "response",
                                        setitem(r["response"], "docs", merged))
                           ELSE r
                 IN IF bad = {} THEN [ok |-> TRUE, val |-> merged, raw |-> r2]
                    ELSE [ok |-> FALSE, exc |-> "KeyError", raw |-> r2]
            ELSE [ok |-> TRUE, val |-> docset, raw |-> r]

Min(a, b) == IF a < b THEN a ELSE b

\* int(ceil(float(a) / float(b))) for a >= 0, b >= 1
CeilDiv(a, b) == IF a % b = 0 THEN a \div b ELSE (a \div b) + 1

\* The window without the two redistribution steps
paginate_clamp_only(hits, start, rows_per_page, max_pagination_len) ==
    LET num_total_pages == CeilDiv(hits, rows_per_page)
        current_page == (start \div rows_per_page) + 1
        max_num_pages_before == CeilDiv(Min(max_pagination_len, num_total_pages), 2) - 1
        max_num_pages_after == Min(max_pagination_len, num_total_pages) \div 2
        num_pages_before == Min(current_page - 1, max_num_pages_before)
        num_pages_after == Min(num_total_pages - current_page, max_num_pages_after)
    IN [max_pagination_len |-> max_pagination_len,
        num_total_pages |-> num_total_pages,
        current_page |-> current_page,
        pages_before |-> [j \in 1..num_pages_before |->
                            current_page - (num_pages_before + 1 - j)],
        pages_after |-> [j \in 1..num_pages_after |-> current_page + j]]

\* The body of get_pagination under `if not hasattr(self, 'pagination')`
paginate(hits, start, rows_per_page, max_pagination_len) ==
    LET num_total_pages == CeilDiv(hits, rows_per_page)
        current_page == (start \div rows_per_page) + 1
        max_num_pages_before == CeilDiv(Min(max_pagination_len, num_total_pages), 2) - 1
        max_num_pages_after == Min(max_pagination_len, num_total_pages) \div 2
        distance_to_1 == current_page - 1
        distance_to_max == num_total_pages - current_page
        before0 == Min(distance_to_1, max_num_pages_before)
        after0 == Min(distance_to_max, max_num_pages_after)
        num_pages_after == IF before0 < max_num_pages_before
                           THEN after0 + (max_num_pages_before - before0)
                           ELSE after0
        num_pages_before == IF num_pages_after < max_num_pages_after
                            THEN before0 + (max_num_pages_after - num_pages_after)
                            ELSE before0
    IN [max_pagination_len |-> max_pagination_len,
        num_total_pages |-> num_total_pages,
        current_page |-> current_page,
        pages_before |-> [j \in 1..num_pages_before |->
                            current_page - (num_pages_before + 1 - j)],
        pages_after |-> [j \in 1..num_pages_after |-> current_page + j]]

NoPagination == [set |-> FALSE]

\* get_pagination computing anew on every call
get_pagination_uncached(pag, r, rows_per_page, max_pagination_len) ==
    [set |-> TRUE,
     val |-> paginate(get_hits(r), get_start_count(r),
                      rows_per_page, max_pagination_len)]

\* get_pagination: the pagination attribute after the call (it is also what
\* the call returns)
get_pagination(pag, r, rows_per_page, max_pagination_len) ==
    IF ~pag.set
    THEN [set |-> TRUE,
          val |-> paginate(get_hits(r), get_start_count(r),
                           rows_per_page, max_pagination_len)]
    ELSE pag

----------------------------------------------------------------------------
(* The inputs the actions draw from.                                       *)

D(d) == [t |-> "dict", v |-> d]

FacetFields == {<<"a">>, <<"a", "-", "b">>}
OutputKeys == {None, S(<<>>), S(<<"k">>), S(<<"k", "-">>)}
Counts == {None} \cup {I(n) : n \in 0..MaxCount}
Prefixes == {None, S(<<"a">>)}

\* add_facet arguments: at most one of the optional arguments is given
FacetArgs ==
    {f \in [field : FacetFields, limit : Counts, mincount : Counts,
            output_key : OutputKeys, prefix : Prefixes] :
        Cardinality({x \in {"limit", "mincount", "output_key", "prefix"} :
                        f[x] # None}) <= 1}

Dict1(k, v) == [x \in {k} |-> v]

\* keyword arguments of set_params, and values of SOLRQUERY_EXTRA_PARAMS
Extras ==
    {Dict1(K("rows"), I(1)),
     Dict1(K("facet"), S(str_true)),
     Dict1(K("facet"), S(<<>>))}

Methods == {S(str_GET), S(str_POST)}
Bodies == {None, S(<<"d">>)}

Docs == {EmptyDict, Dict1("id", 1), Dict1("id", 2),
         update(Dict1("id", 1), Dict1("highlights", <<"old">>))}

RECURSIVE SeqsUpTo(_, _)
SeqsUpTo(set, n) ==
    IF n = 0 THEN {<<>>}
    ELSE LET shorter == SeqsUpTo(set, n - 1)
         IN shorter \cup {Append(q, x) : q \in shorter, x \in set}

Highlightings == {Dict1(1, <<"f1">>),
                  update(Dict1(1, <<"f1">>), Dict1(2, <<"f2", "f3">>))}

FacetCounts == [facet_fields |-> [a |-> <<"x", 3>>]]

\* Payloads without documents: the hit count and the start offset vary.
PagePayloads ==
    {EmptyDict} \cup
    {Dict1("response", update(update(Dict1("numFound", h), Dict1("start", st)),
                              Dict1("docs", <<>>)))
        : h \in 0..MaxHits, st \in 0..MaxStart}

\* Payloads whose documents and highlighting vary.
DocPayloads ==
    LET resp(ds) == update(update(Dict1("numFound", Len(ds)), Dict1("start", 0)),
                           Dict1("docs", ds))
    IN {Dict1("response", resp(ds)) : ds \in SeqsUpTo(Docs, MaxDocs)} \cup
       {update(Dict1("response", resp(ds)), Dict1("highlighting", hl))
           : ds \in SeqsUpTo(Docs, MaxDocs), hl \in Highlightings}

\* Payloads with and without facet counts.
FacetPayloads ==
    {EmptyDict, Dict1("facet_counts", FacetCounts)}

----------------------------------------------------------------------------
(* Initial states: a fresh SearchRequest, a configured client, a response  *)
(* loaded for the request.                                                 *)

NotPrepared == [set |-> FALSE]

InitRequest ==
    /\ params = NewParams(S(<<"q">>))
    /\ method = None
    /\ data = None
    /\ url = None
    /\ prepared = NotPrepared
    /\ nprepared = 0
    /\ added = <<>>
    /\ given = {}

InitResponse(payloads) ==
    /\ raw \in payloads
    /\ pagination = NoPagination
    /\ pag_args = [first |-> <<>>, again |-> FALSE]
    /\ first_docset = [set |-> FALSE, again |-> FALSE]

InitCall ==
    /\ op = "init"
    /\ ret = None

----------------------------------------------------------------------------
(* Actions of the builder.                                                 *)

AddFacet ==
    /\ Len(added) < MaxFacets
    /\ \E f \in FacetArgs :
          /\ params' = add_facet(params, f.field, f.limit, f.mincount,
                                 f.output_key, f.prefix)
          /\ added' = Append(added, f)
    /\ op' = "add_facet"
    /\ ret' = None
    /\ UNCHANGED <<method, data, url, prepared, nprepared, given,
                   client_vars, response_vars>>

SetParams ==
    /\ \E kw \in Extras :
          /\ params' = update(params, kw)
          /\ given' = given \cup {kw}
    /\ op' = "set_params"
    /\ ret' = None
    /\ UNCHANGED <<method, data, url, prepared, nprepared, added,
                   client_vars, response_vars>>

GetFacets ==
    /\ op' = "get_facets"
    /\ ret' = get_facets(params)
    /\ UNCHANGED <<request_vars, nprepared, added, given, client_vars, response_vars>>

GetAllFacets ==
    /\ op' = "get_all_facets"
    /\ ret' = get_all_facets(params, raw)
    /\ UNCHANGED <<request_vars, nprepared, added, given, client_vars, response_vars>>

Init ==
    /\ InitRequest
    /\ extra_params = None
    /\ request_http_method = S(str_GET)
    /\ InitResponse(FacetPayloads)
    /\ InitCall

Next ==
    \/ AddFacet
    \/ SetParams
    \/ GetFacets
    \/ GetAllFacets

Spec == Init /\ [][Next]_vars

----------------------------------------------------------------------------
(* The client: the request's transport attributes, set_defaults, prepare.  *)

\* self.params.rows = rows
set_rows(p, rows) == setitem(p, K("rows"), rows)

SetRows ==
    /\ \E n \in 1..MaxRows : params' = set_rows(params, I(n))
    /\ op' = "set_rows"
    /\ ret' = None
    /\ UNCHANGED <<method, data, url, prepared, nprepared, added, given,
                   client_vars, response_vars>>

\* req.method = m: the attribute is public
SetMethod ==
    /\ \E m \in Methods : method' = m
    /\ op' = "set_method"
    /\ ret' = None
    /\ UNCHANGED <<params, data, url, prepared, nprepared, added, given,
                   client_vars, response_vars>>

\* req.data = d: the attribute is public
SetData ==
    /\ \E d \in Bodies : data' = d
    /\ op' = "set_data"
    /\ ret' = None
    /\ UNCHANGED <<params, method, url, prepared, nprepared, added, given,
                   client_vars, response_vars>>

SetDefaults ==
    /\ \E u \in {None, S(<<"v">>)} :
          LET d == set_defaults(params, method, extra_params,
                                request_http_method, u)
          IN /\ url' = d.url
             /\ params' = d.params
             /\ method' = d.method
    /\ op' = "set_defaults"
    /\ ret' = None
    /\ UNCHANGED <<data, prepared, nprepared, added, given,
                   client_vars, response_vars>>

Prepare ==
    /\ nprepared < MaxPrepare
    /\ \E u \in {None, S(<<"v">>)}, m \in {None} \cup Methods, d \in Bodies :
          LET r == prepare(params, method, data, url, u, m, d)
          IN /\ ret' = r
             /\ prepared' = IF r.ok THEN [set |-> TRUE, val |-> r] ELSE prepared
             /\ url' = IF r.ok THEN r.url ELSE url
    /\ nprepared' = nprepared + 1
    /\ op' = "prepare"
    /\ UNCHANGED <<params, method, data, added, given, client_vars, response_vars>>

InitClient ==
    /\ InitRequest
    /\ extra_params \in {None} \cup {D(x) : x \in Extras}
    /\ request_http_method \in Methods
    /\ InitResponse({EmptyDict})
    /\ InitCall

NextClient ==
    \/ SetRows
    \/ SetMethod
    \/ SetData
    \/ SetDefaults
    \/ Prepare

SpecClient == InitClient /\ [][NextClient]_vars

----------------------------------------------------------------------------
(* The response.                                                           *)

AddHighlight ==
    /\ \E f \in {<<"t">>}, c \in {I(1)} :
          params' = add_highlight(params, f, c, None)
    /\ op' = "add_highlight"
    /\ ret' = None
    /\ UNCHANGED <<method, data, url, prepared, nprepared, added, given,
                   client_vars, response_vars>>

GetHits ==
    /\ op' = "get_hits"
    /\ ret' = get_hits(raw)
    /\ UNCHANGED <<request_vars, nprepared, added, given, client_vars, response_vars>>

GetStartCount ==
    /\ op' = "get_start_count"
    /\ ret' = get_start_count(raw)
    /\ UNCHANGED <<request_vars, nprepared, added, given, client_vars, response_vars>>

GetDocset ==
    /\ LET r == get_docset(raw, params)
       IN /\ raw' = r.raw
          /\ ret' = IF r.ok THEN [ok |-> TRUE, val |-> r.val]
                    ELSE [ok |-> FALSE, exc |-> r.exc]
          /\ first_docset' =
                IF first_docset.set THEN [first_docset EXCEPT !.again = TRUE]
                ELSE IF highlights_on(params) /\ has_key(raw, "highlighting")
                THEN [set |-> TRUE,
                      again |-> FALSE,
                      ok |-> r.ok,
                      val |-> IF r.ok THEN r.val ELSE <<>>]
                ELSE first_docset
    /\ op' = "get_docset"
    /\ UNCHANGED <<request_vars, nprepared, added, given, client_vars,
                   pagination, pag_args>>

GetPagination ==
    /\ \E rows_per_page \in 1..MaxRows, max_pagination_len \in 1..MaxLen :
          /\ pagination' = get_pagination(pagination, raw, rows_per_page,
                                          max_pagination_len)
          /\ pag_args' =
                IF pagination.set
                THEN [pag_args EXCEPT !.again =
                        @ \/ pag_args.first # <<rows_per_page, max_pagination_len>>]
                ELSE [first |-> <<rows_per_page, max_pagination_len>>,
                      again |-> FALSE]
    /\ ret' = pagination'.val
    /\ op' = "get_pagination"
    /\ UNCHANGED <<request_vars, nprepared, added, given, client_vars,
                   raw, first_docset>>

InitResp ==
    /\ InitRequest
    /\ extra_params = None
    /\ request_http_method = S(str_GET)
    /\ InitResponse(PagePayloads \cup DocPayloads)
    /\ InitCall

NextResponse ==
    \/ AddHighlight
    \/ GetHits
    \/ GetStartCount
    \/ GetDocset
    \/ GetPagination

SpecResponse == InitResp /\ [][NextResponse]_vars

----------------------------------------------------------------------------
(* Claims checked under Spec (the builder).                                *)

\* C1: after any sequence of add_facet calls on a fresh request, get_facets
\* returns, in insertion order, one descriptor per call with the field,
\* limit, mincount, output_key and prefix that were passed.
C1_FacetRoundTrip ==
    (op = "get_facets" /\ given = {}) => (ret.ok /\ ret.val = added)

\* A set_params call gave 'facet' a true value.
Forced == \E kw \in given : has_key(kw, K("facet")) /\ Truthy(kw[K("facet")])

\* C5 as stated: when add_facet was never called, whatever set_params was
\* given, get_all_facets returns an empty mapping.
C5_FacetOffGuard ==
    (op = "get_all_facets" /\ added = <<>>) => DOMAIN ret = {}

\* C5 amended: when add_facet was never called and no set_params call gave
\* 'facet' a true value, get_all_facets returns an empty mapping, even if the
\* payload has facet_counts.
C5_FacetOffGuardUnforced ==
    (op = "get_all_facets" /\ added = <<>> /\ ~Forced) => DOMAIN ret = {}

C5_Witness ==
    /\ op = "get_all_facets"
    /\ added = <<>>
    /\ ~Forced
    /\ given # {}
    /\ has_key(raw, "facet_counts")
    /\ DOMAIN ret = {}

\* Whether tok is '{!ex=dt key=<word>}<word>' with both words non-empty.
WellFormedTag(tok) ==
    LET head == ex_prefix \o <<" ", "k", "e", "y", "=">>
        n == Len(head)
        j == WordRunEnd(tok, n + 1)
    IN /\ startswith(tok, head)
       /\ j > n + 1
       /\ j < Len(tok)
       /\ tok[j] = "}"
       /\ WordRunEnd(tok, j + 1) = Len(tok) + 1

\* C9: get_facets never raises, and a facet.field token that is no
\* well-formed exclusion tag is returned as a plain field name, with no
\* output key.
C9_FailSoft ==
    op = "get_facets" /\ facets_on(params) =>
        LET fls == get(params, K("facet.field"), L(<<>>)).v
        IN /\ ret.ok
           /\ Len(ret.val) = Len(fls)
           /\ \A i \in 1..Len(fls) :
                 ~WellFormedTag(fls[i]) =>
                    ret.val[i].field = fls[i] /\ ret.val[i].output_key = None

----------------------------------------------------------------------------
(* Claims checked under SpecClient.                                        *)

\* C2: prepare never produces a prepared request whose method is GET and
\* whose body is non-empty; it fails instead.
C2_GetBodyRejected ==
    op = "prepare" => ~(ret.ok /\ ret.method = S(str_GET) /\ Truthy(ret.data))

\* C3: set_defaults leaves every key already set on the builder with the
\* builder's value.
C3_BuilderValuesWin ==
    [][op' = "set_defaults" => \A k \in DOMAIN params : params'[k] = params[k]]_vars

\* C8: set_defaults leaves a method already set on the builder unchanged.
C8_ForcedMethodKept ==
    [][(op' = "set_defaults" /\ method # None) => method' = method]_vars

----------------------------------------------------------------------------
(* Claims checked under SpecResponse.                                      *)

InPageRange ==
    /\ get_hits(raw) >= 1
    /\ get_start_count(raw) < get_hits(raw)

\* C4: for hits >= 1 and 0 <= start < hits, the first get_pagination call
\* returns num_total_pages = ceil(hits / rows_per_page), current_page =
\* floor(start / rows_per_page) + 1, and a window of
\* min(max_pagination_len, num_total_pages) pages, the current one included.
C4_WindowLength ==
    (pagination.set /\ InPageRange) =>
        LET v == pagination.val
            rows == pag_args.first[1]
            len == pag_args.first[2]
        IN /\ v.num_total_pages * rows >= get_hits(raw)
           /\ (v.num_total_pages - 1) * rows < get_hits(raw)
           /\ (v.current_page - 1) * rows <= get_start_count(raw)
           /\ get_start_count(raw) < v.current_page * rows
           /\ Len(v.pages_before) + 1 + Len(v.pages_after)
                 = Min(len, v.num_total_pages)

\* On the first page of many, the slots unused before go after.
C4_Witness ==
    /\ pagination.set
    /\ InPageRange
    /\ pag_args.first = <<1, 4>>
    /\ pagination.val.current_page = 1
    /\ Len(pagination.val.pages_before) = 0
    /\ Len(pagination.val.pages_after) = 3
    /\ pagination.val.num_total_pages > 4

\* C6: once get_pagination has computed the pagination, no call changes it,
\* and every later get_pagination call returns it, whatever its arguments.
C6_FirstCallWins ==
    [][pagination.set =>
          /\ pagination' = pagination
          /\ (op' = "get_pagination" => ret' = pagination.val)]_vars

C6_Witness ==
    /\ op = "get_pagination"
    /\ pag_args.again
    /\ pag_args.first = <<1, 1>>
    /\ ret = pagination.val
    /\ ret.max_pagination_len = 1
    /\ ret.num_total_pages > 1

\* C7: with highlighting requested and highlight data in the payload, once a
\* get_docset call has succeeded every get_docset call succeeds and returns
\* the documents that call returned, each with exactly the payload's
\* fragments of its id.
C7_DocsetIdempotent ==
    (op = "get_docset" /\ first_docset.set /\ first_docset.ok) =>
        /\ ret.ok
        /\ ret.val = first_docset.val
        /\ \A i \in 1..Len(ret.val) :
              ret.val[i]["highlights"] = raw["highlighting"][ret.val[i]["id"]]

C7_Witness ==
    /\ op = "get_docset"
    /\ first_docset.again
    /\ first_docset.ok
    /\ ret.ok
    /\ Len(ret.val) = 2
    /\ ret.val[2]["highlights"] = <<"f2", "f3">>

\* C10: every page get_pagination lists lies in 1..num_total_pages, before
\* the current page in pages_before and after it in pages_after.
C10_PagesInRange ==
    pagination.set =>
        LET v == pagination.val
        IN /\ \A i \in 1..Len(v.pages_before) :
                 /\ v.pages_before[i] \in 1..v.num_total_pages
                 /\ v.pages_before[i] < v.current_page
           /\ \A i \in 1..Len(v.pages_after) :
                 /\ v.pages_after[i] \in 1..v.num_total_pages
                 /\ v.pages_after[i] > v.current_page

====
